---- MODULE Spec2Model ----
(***************************************************************************)
(* Model of the Calgary buildings backend (backend/data_fetch.py and the   *)
(* older backend/app.py): the building assembler fetch_buildings with its  *)
(* two spatial joins, and the filter engine compute_matched_ids.           *)
(*                                                                         *)
(* Python values are records tagged by type.  Strings are sequences of     *)
(* one-character strings so that str(), strip(), lower(), replace() and    *)
(* float() are computed character by character.  Numbers are integers     *)
(* (floats with an integral value); the tag keeps int and float apart      *)
(* because str() prints them differently.                                  *)
(***************************************************************************)
EXTENDS Integers, Sequences, FiniteSets, TLC

VARIABLES
    ENABLE_ZONING_JOIN,   \* data_fetch.py:58, read once from the environment
    ENABLE_ASSESS_JOIN,   \* data_fetch.py:59
    remote,               \* what the open-data portal serves and which datasets are reachable
    geom_field_cache,     \* lru_cache of _discover_geom_field
    land_use_cache,       \* lru_cache of _load_land_use_index
    assess_cache,         \* lru_cache of _load_assess_index
    LATEST_PAYLOAD,       \* data_fetch.py:467
    request,              \* the request being answered (None when idle)
    response,             \* its response (None when idle)
    requested,            \* requests sent to the portal while answering the request
    joined,               \* the point joins made while answering it, with their results
    builds,               \* how often the index of each (dataset, window) was built so far
    files,                \* data/projects: the content of each user's project file
    saving,               \* the save requests in progress on the server's threads
    saved                 \* what the last successful save of each (username, name) stored

vars == <<ENABLE_ZONING_JOIN, ENABLE_ASSESS_JOIN, remote, geom_field_cache, land_use_cache,
          assess_cache, LATEST_PAYLOAD, request, response, requested, joined, builds,
          files, saving, saved>>

\* The project store and the saves in progress.
store == <<files, saving, saved>>

----------------------------------------------------------------------------
(* Python values *)

None == [t |-> "none"]
PyInt(n) == [t |-> "int", n |-> n]
PyFloat(n) == [t |-> "float", n |-> n]
PyStr(s) == [t |-> "str", s |-> s]
PyList(items) == [t |-> "list", items |-> items]
PyDict(d) == [t |-> "dict", d |-> d]

EmptyDict == [k \in {} |-> None]

IsNum(v) == v.t \in {"int", "float"}

\* Python truthiness, as used by `or`, `not` and `if`.
Truthy(v) ==
    CASE v.t = "none" -> FALSE
      [] v.t \in {"int", "float"} -> v.n # 0
      [] v.t = "str" -> Len(v.s) > 0
      [] v.t = "list" -> Len(v.items) > 0
      [] v.t = "dict" -> DOMAIN v.d # {}

\* a or b
Or(a, b) == IF Truthy(a) THEN a ELSE b

\* d.get(k) on a dict value
Get(d, k) == IF k \in DOMAIN d.d THEN d.d[k] ELSE None

DigitChars == <<"0", "1", "2", "3", "4", "5", "6", "7", "8", "9">>

IsDigit(c) == \E i \in 1..10 : DigitChars[i] = c

DigitVal(c) == (CHOOSE i \in 1..10 : DigitChars[i] = c) - 1

RECURSIVE NatDigits(_)
NatDigits(n) ==
    IF n < 10 THEN <<DigitChars[n + 1]>>
    ELSE NatDigits(n \div 10) \o <<DigitChars[(n % 10) + 1]>>

IntDigits(n) == IF n < 0 THEN <<"-">> \o NatDigits(0 - n) ELSE NatDigits(n)

\* str(x)
Str(v) ==
    CASE v.t = "str" -> v.s
      [] v.t = "int" -> IntDigits(v.n)
      [] v.t = "float" -> IntDigits(v.n) \o <<".", "0">>
      [] v.t = "none" -> <<"N", "o", "n", "e">>

UpperChars == <<"A", "B", "C", "D", "E", "F", "G", "H", "I", "J", "K", "L", "M",
                "N", "O", "P", "Q", "R", "S", "T", "U", "V", "W", "X", "Y", "Z">>

LowerChars == <<"a", "b", "c", "d", "e", "f", "g", "h", "i", "j", "k", "l", "m",
                "n", "o", "p", "q", "r", "s", "t", "u", "v", "w", "x", "y", "z">>

LowerChar(c) ==
    IF \E i \in 1..26 : UpperChars[i] = c
    THEN LowerChars[CHOOSE i \in 1..26 : UpperChars[i] = c]
    ELSE c

\* s.lower()
Lower(s) == [i \in 1..Len(s) |-> LowerChar(s[i])]

IsSpace(c) == c = " "

RECURSIVE LStrip(_)
LStrip(s) == IF s # <<>> /\ IsSpace(Head(s)) THEN LStrip(Tail(s)) ELSE s

RECURSIVE RStrip(_)
RStrip(s) ==
    IF s # <<>> /\ IsSpace(s[Len(s)]) THEN RStrip(SubSeq(s, 1, Len(s) - 1)) ELSE s

\* s.strip()
Strip(s) == RStrip(LStrip(s))

IsComma(c) == c = ","

\* s.replace(",", "")
RemoveCommas(s) == SelectSeq(s, LAMBDA c : ~IsComma(c))

\* v in a  (substring test)
Contains(a, v) ==
    \E i \in 0..(Len(a) - Len(v)) : SubSeq(a, i + 1, i + Len(v)) = v

StartsWith(a, v) == Len(v) <= Len(a) /\ SubSeq(a, 1, Len(v)) = v

EndsWith(a, v) == Len(v) <= Len(a) /\ SubSeq(a, Len(a) - Len(v) + 1, Len(a)) = v

RECURSIVE DigitsValue(_)
DigitsValue(s) ==
    IF s = <<>> THEN 0
    ELSE 10 * DigitsValue(SubSeq(s, 1, Len(s) - 1)) + DigitVal(s[Len(s)])

AllDigits(s) == \A i \in 1..Len(s) : IsDigit(s[i])

AllZeros(s) == \A i \in 1..Len(s) : s[i] = "0"

\* float(s) on a string: surrounding whitespace is ignored, an optional sign,
\* decimal digits with an optional fraction.  Numbers of the model are integral,
\* so the fraction digits it reads are zeros.  Anything else is a ValueError,
\* given as None.
FloatOfStr(s0) ==
    LET s == Strip(s0)
        neg == s # <<>> /\ Head(s) = "-"
        u == IF s # <<>> /\ Head(s) \in {"-", "+"} THEN Tail(s) ELSE s
        dots == {i \in 1..Len(u) : u[i] = "."}
        ip == IF dots = {} THEN u ELSE SubSeq(u, 1, (CHOOSE i \in dots : \A j \in dots : i <= j) - 1)
        fp == IF dots = {} THEN <<>> ELSE SubSeq(u, (CHOOSE i \in dots : \A j \in dots : i <= j) + 1, Len(u))
    IN  IF (ip # <<>> \/ fp # <<>>) /\ AllDigits(ip) /\ AllZeros(fp)
        THEN PyFloat(IF neg THEN 0 - DigitsValue(ip) ELSE DigitsValue(ip))
        ELSE None

----------------------------------------------------------------------------
(* Key names and operator names, as character sequences *)

k_id == <<"i", "d">>
k_objectid == <<"o", "b", "j", "e", "c", "t", "i", "d">>
k_globalid == <<"g", "l", "o", "b", "a", "l", "i", "d">>
k_height == <<"h", "e", "i", "g", "h", "t">>
k_bldg_height == <<"b", "l", "d", "g", "_", "h", "e", "i", "g", "h", "t">>
k_building_height == <<"b", "u", "i", "l", "d", "i", "n", "g", "_", "h", "e", "i", "g", "h", "t">>
k_max_height == <<"m", "a", "x", "_", "h", "e", "i", "g", "h", "t">>
k_zoning == <<"z", "o", "n", "i", "n", "g">>
k_land_use == <<"l", "a", "n", "d", "_", "u", "s", "e">>
k_zone == <<"z", "o", "n", "e">>
k_address == <<"a", "d", "d", "r", "e", "s", "s">>
k_street_address == <<"s", "t", "r", "e", "e", "t", "_", "a", "d", "d", "r", "e", "s", "s">>
k_full_address == <<"f", "u", "l", "l", "_", "a", "d", "d", "r", "e", "s", "s">>
k_assessed_value == <<"a", "s", "s", "e", "s", "s", "e", "d", "_", "v", "a", "l", "u", "e">>
k_assessment == <<"a", "s", "s", "e", "s", "s", "m", "e", "n", "t">>
k_total_assessed_value == <<"t", "o", "t", "a", "l", "_", "a", "s", "s", "e", "s", "s", "e", "d", "_", "v", "a", "l", "u", "e">>
k_value == <<"v", "a", "l", "u", "e">>
k_land_use_district == <<"l", "a", "n", "d", "_", "u", "s", "e", "_", "d", "i", "s", "t", "r", "i", "c", "t">>
k_district == <<"d", "i", "s", "t", "r", "i", "c", "t">>
k_lu_district == <<"l", "u", "_", "d", "i", "s", "t", "r", "i", "c", "t">>
k_code == <<"c", "o", "d", "e">>
k_lud == <<"l", "u", "d">>
k_footprint_ll == <<"f", "o", "o", "t", "p", "r", "i", "n", "t", "_", "l", "l">>
k_footprint_xy == <<"f", "o", "o", "t", "p", "r", "i", "n", "t", "_", "x", "y">>
k_properties == <<"p", "r", "o", "p", "e", "r", "t", "i", "e", "s">>
k_attribute == <<"a", "t", "t", "r", "i", "b", "u", "t", "e">>
k_operator == <<"o", "p", "e", "r", "a", "t", "o", "r">>

EmptyStr == PyStr(<<>>)

----------------------------------------------------------------------------
(* Filter engine, data_fetch.py *)

PyBool(b) == [t |-> "bool", b |-> b]
Raise(e) == [t |-> "raise", e |-> e]

_get_attr(b, attr) ==
    IF attr \in DOMAIN b.d THEN Get(b, attr)
    ELSE LET props == Or(Get(b, k_properties), PyDict(EmptyDict))
         IN  Get(props, attr)

\* Mutant: thousands separators are left in the text.
_to_num_KeepCommas(x) ==
    CASE x.t = "none" -> None
      [] x.t \in {"int", "float"} -> PyFloat(x.n)
      [] x.t = "str" -> FloatOfStr(Strip(Str(x)))
      [] OTHER -> None

_to_num(x) ==
    CASE x.t = "none" -> None
      [] x.t \in {"int", "float"} -> PyFloat(x.n)
      [] x.t = "str" -> FloatOfStr(Strip(RemoveCommas(Str(x))))
      [] OTHER -> None

NumericAttrs == {k_height, k_assessed_value}

\* Mutant: >= and gte compare strictly.
MatchNumeric_StrictGte(op, a, v) ==
    IF a = None \/ v = None THEN FALSE
    ELSE IF op \in {<<">">>, <<"g", "t">>, <<">", "=">>, <<"g", "t", "e">>} THEN a.n > v.n
    ELSE IF op \in {<<"<">>, <<"l", "t">>} THEN a.n < v.n
    ELSE IF op \in {<<"<", "=">>, <<"l", "t", "e">>} THEN a.n <= v.n
    ELSE IF op \in {<<"=">>, <<"=", "=">>, <<"e", "q">>} THEN a.n = v.n
    ELSE IF op \in {<<"!", "=">>, <<"n", "e", "q">>} THEN a.n # v.n
    ELSE FALSE

\* The numeric branch of _match_one, on the coerced operands.
MatchNumeric(op, a, v) ==
    IF a = None \/ v = None THEN FALSE
    ELSE IF op \in {<<">">>, <<"g", "t">>} THEN a.n > v.n
    ELSE IF op \in {<<">", "=">>, <<"g", "t", "e">>} THEN a.n >= v.n
    ELSE IF op \in {<<"<">>, <<"l", "t">>} THEN a.n < v.n
    ELSE IF op \in {<<"<", "=">>, <<"l", "t", "e">>} THEN a.n <= v.n
    ELSE IF op \in {<<"=">>, <<"=", "=">>, <<"e", "q">>} THEN a.n = v.n
    ELSE IF op \in {<<"!", "=">>, <<"n", "e", "q">>} THEN a.n # v.n
    ELSE FALSE

\* The string branch of _match_one, on the lower-cased operands.
MatchString(op, a, v) ==
    IF op \in {<<"c", "o", "n", "t", "a", "i", "n", "s">>,
               <<"i", "n", "c", "l", "u", "d", "e", "s">>}
    THEN Contains(a, v)
    ELSE IF op \in {<<"s", "t", "a", "r", "t", "s", "_", "w", "i", "t", "h">>,
                    <<"s", "t", "a", "r", "t", "s", "w", "i", "t", "h">>}
    THEN StartsWith(a, v)
    ELSE IF op \in {<<"e", "n", "d", "s", "_", "w", "i", "t", "h">>,
                    <<"e", "n", "d", "s", "w", "i", "t", "h">>}
    THEN EndsWith(a, v)
    ELSE IF op \in {<<"=">>, <<"=", "=">>, <<"e", "q">>} THEN a = v
    ELSE IF op \in {<<"!", "=">>, <<"n", "e", "q">>} THEN a # v
    ELSE FALSE

StrOrEmpty(x) == IF x = None THEN <<>> ELSE Str(x)

\* Mutant: text is compared as it is written.
MatchAttr_CaseSensitive(b, attr, op, val) ==
    IF attr = <<>> \/ op = <<>> THEN TRUE
    ELSE IF attr \in NumericAttrs
    THEN MatchNumeric(op, _to_num(_get_attr(b, attr)), _to_num(val))
    ELSE MatchString(op, StrOrEmpty(_get_attr(b, attr)), StrOrEmpty(val))

\* _match_one once attr, op and val are read.
MatchAttr(b, attr, op, val) ==
    IF attr = <<>> \/ op = <<>> THEN TRUE
    ELSE IF attr \in NumericAttrs
    THEN MatchNumeric(op, _to_num(_get_attr(b, attr)), _to_num(val))
    ELSE MatchString(op, Lower(StrOrEmpty(_get_attr(b, attr))), Lower(StrOrEmpty(val)))

\* f is a dict: the three f.get calls of _match_one.
MatchDict(b, f) ==
    MatchAttr(b, Strip(Str(Or(Get(f, k_attribute), EmptyStr))),
              Lower(Strip(Str(Or(Get(f, k_operator), EmptyStr)))),
              Get(f, k_value))

\* f.get on anything but a dict is an AttributeError.
_match_one(b, f) ==
    IF f.t # "dict" THEN Raise("AttributeError") ELSE PyBool(MatchDict(b, f))

\* The inner loop of compute_matched_ids: stops at the first filter that
\* does not match, so later filters are not evaluated.
RECURSIVE MatchAll(_, _)
MatchRest(b, fs, r) ==
    IF r.t = "raise" THEN r
    ELSE IF ~r.b THEN PyBool(FALSE)
    ELSE MatchAll(b, Tail(fs))

MatchAll(b, fs) ==
    IF fs = <<>> THEN PyBool(TRUE) ELSE MatchRest(b, fs, _match_one(b, Head(fs)))

\* `for f in filters`: a list gives its items, a string its characters,
\* a number is not iterable.
Iterate(x) ==
    CASE x.t = "list" -> PyList(x.items)
      [] x.t = "str" -> PyList([i \in 1..Len(x.s) |-> PyStr(<<x.s[i]>>)])
      [] x.t \in {"int", "float"} -> Raise("TypeError")

MatchBuilding(b, it) == IF it.t = "raise" THEN it ELSE MatchAll(b, it.items)

RECURSIVE MatchLoop(_, _, _)
MatchNext(bs, filters, out, r) ==
    IF r.t = "raise" THEN r
    ELSE MatchLoop(Tail(bs), filters,
                   IF r.b THEN Append(out, PyStr(Str(Get(Head(bs), k_id)))) ELSE out)

MatchLoop(bs, filters, out) ==
    IF bs = <<>> THEN PyList(out)
    ELSE MatchNext(bs, filters, out, MatchBuilding(Head(bs), Iterate(filters)))

compute_matched_ids(buildings, filters) ==
    IF ~Truthy(filters) THEN PyList(<<>>)
    ELSE MatchLoop(buildings, filters, <<>>)

----------------------------------------------------------------------------
(* Filter engine of the older service, app.py *)

\* float(x)
FloatOf(x) ==
    CASE x.t \in {"int", "float"} -> PyFloat(x.n)
      [] x.t = "str" -> FloatOfStr(x.s)
      [] OTHER -> None

ApplyCompare(op, bv, val) ==
    IF FloatOf(bv) = None \/ FloatOf(val) = None THEN FALSE
    ELSE IF op = PyStr(<<">">>) THEN FloatOf(bv).n > FloatOf(val).n
    ELSE FloatOf(bv).n < FloatOf(val).n

\* _apply_single_filter once bv is read.
ApplyOp(op, bv, val) ==
    IF bv = None THEN FALSE
    ELSE IF op \in {PyStr(<<">">>), PyStr(<<"<">>)} THEN ApplyCompare(op, bv, val)
    ELSE IF op = PyStr(<<"c", "o", "n", "t", "a", "i", "n", "s">>)
         THEN Contains(Lower(Str(bv)), Lower(Str(val)))
    ELSE Lower(Str(bv)) = Lower(Str(val))

AttrValue(b, attr) ==
    IF attr.t # "str" THEN None
    ELSE IF attr.s \in DOMAIN b.d THEN Get(b, attr.s)
    ELSE Get(Or(Get(b, k_properties), PyDict(EmptyDict)), attr.s)

ApplyDict(b, f) ==
    ApplyOp(Get(f, k_operator), AttrValue(b, Get(f, k_attribute)), Get(f, k_value))

_apply_single_filter(b, f) ==
    IF f.t # "dict" THEN Raise("AttributeError") ELSE PyBool(ApplyDict(b, f))

\* all(_apply_single_filter(b, f) for f in filters)
RECURSIVE ApplyAll(_, _)
ApplyRest(b, fs, r) ==
    IF r.t = "raise" THEN r
    ELSE IF ~r.b THEN PyBool(FALSE)
    ELSE ApplyAll(b, Tail(fs))

ApplyAll(b, fs) ==
    IF fs = <<>> THEN PyBool(TRUE) ELSE ApplyRest(b, fs, _apply_single_filter(b, Head(fs)))

RECURSIVE ApplyLoop(_, _, _)
ApplyNext(bs, fs, out, r) ==
    IF r.t = "raise" THEN r
    ELSE ApplyLoop(Tail(bs), fs, IF r.b THEN Append(out, Get(Head(bs), k_id)) ELSE out)

ApplyLoop(bs, fs, out) ==
    IF bs = <<>> THEN PyList(out) ELSE ApplyNext(bs, fs, out, ApplyAll(Head(bs), fs))

----------------------------------------------------------------------------
(* Remote datasets and geometry, data_fetch.py *)

BUILDINGS_ID == "cchr-krqg"
LAND_USE_ID == "qe6k-p9nh"
ASSESS_ID == "4bsw-nn7w"

RETURN_LIMIT == 300
BUILDINGS_FETCH_LIMIT == 4000
LAND_USE_FETCH_LIMIT == 12000
ASSESS_FETCH_LIMIT == 12000
INDEX_CACHE_SIZE == 8

\* Coordinates are points of an integer grid.  The default window has bounds
\* whose sums are even, so that its centre is a grid point.
DEFAULT_BBOX == [south |-> -10, west |-> -10, north |-> 20, east |-> 30]

_as_float(v) ==
    CASE v.t = "none" -> None
      [] v.t \in {"int", "float"} -> PyFloat(v.n)
      [] v.t = "str" -> FloatOfStr(v.s)
      [] OTHER -> None

\* GeoJSON geometry: None, or a record of type and coordinates.  A Polygon's
\* coordinates are its rings, a MultiPolygon's are its polygons.
_extract_ring_coords(geom) ==
    IF geom = None THEN None
    ELSE IF geom.coordinates = <<>> THEN None
    ELSE IF geom.type = "Polygon"
         THEN IF geom.coordinates[1] # <<>> THEN PyList(geom.coordinates[1]) ELSE None
    ELSE IF geom.type = "MultiPolygon"
         THEN IF geom.coordinates[1] # <<>>
              THEN PyList(geom.coordinates[1][1]) ELSE None
    ELSE None

\* The state a call reads and writes on its way: the two index caches, the
\* geometry-field cache, and the logs of the requests sent and joins made.
Mem(gc, lc, ac, bd) ==
    [geom_cache |-> gc, land_use_cache |-> lc, assess_cache |-> ac,
     requested |-> {}, joined |-> <<>>, builds |-> bd]

\* A call's outcome: the state it leaves and the value it returns, or the
\* exception it raises.
Ret(m, v) == [m |-> m, err |-> FALSE, val |-> v]
Fail(m, e) == [m |-> m, err |-> TRUE, val |-> e]

Sent(m, ds, kind) == [m EXCEPT !.requested = @ \cup {<<ds, kind>>}]

\* lru_cache(maxsize=32): one metadata request per dataset, the answer kept.
\* The portal's metadata declares the geometry column the_geom.
_discover_geom_field(m, rem, ds) ==
    IF ds \in m.geom_cache THEN Ret(m, "the_geom")
    ELSE IF ~rem.up[ds] THEN Fail(Sent(m, ds, "meta"), "SourceUnavailable")
    ELSE Ret([Sent(m, ds, "meta") EXCEPT !.geom_cache = @ \cup {ds}], "the_geom")

Take(seq, n) == SubSeq(seq, 1, IF Len(seq) < n THEN Len(seq) ELSE n)

\* _fetch_geojson_features: one request; the features of the dataset inside
\* the window, at most `limit` of them.
_fetch_geojson_features(m, rem, ds, limit) ==
    IF ~rem.up[ds] THEN Fail(Sent(m, ds, "data"), "SourceUnavailable")
    ELSE Ret(Sent(m, ds, "data"), Take(rem.features[ds], limit))

\* g is the outcome of _discover_geom_field.
FetchWith(g, rem, ds, limit) ==
    IF g.err THEN g ELSE _fetch_geojson_features(g.m, rem, ds, limit)

_fetch_bbox_features(m, rem, ds, limit) ==
    FetchWith(_discover_geom_field(m, rem, ds), rem, ds, limit)

\* Mutant: the origin is the window's south-west corner.
_bbox_center_Corner(bbox) == <<bbox.west, bbox.south>>

_bbox_center(bbox) ==
    <<(bbox.west + bbox.east) \div 2, (bbox.south + bbox.north) \div 2>>

\* A ring as shapely holds it: closed.
Closed(ring) == IF ring[1] = ring[Len(ring)] THEN ring ELSE Append(ring, ring[1])

\* shapely's shape(geom): the exterior ring of a Polygon (polygons of the
\* model have no holes and one part).  None for an empty geometry or one
\* shapely rejects (a ring that has fewer than four positions once closed).
Shape(geom) ==
    IF geom = None THEN None
    ELSE IF geom.type = "Polygon" /\ geom.coordinates # <<>>
            /\ geom.coordinates[1] # <<>> /\ Len(Closed(geom.coordinates[1])) >= 4
         THEN PyList(Closed(geom.coordinates[1]))
    ELSE IF geom.type = "MultiPolygon" /\ geom.coordinates # <<>>
            /\ geom.coordinates[1] # <<>> /\ geom.coordinates[1][1] # <<>>
            /\ Len(Closed(geom.coordinates[1][1])) >= 4
         THEN PyList(Closed(geom.coordinates[1][1]))
    ELSE None

Cross(p, q) == p[1] * q[2] - q[1] * p[2]

RECURSIVE Sum(_)
Sum(s) == IF s = <<>> THEN 0 ELSE Head(s) + Sum(Tail(s))

\* poly.centroid of a closed ring: the area-weighted centroid, and the mean
\* of the vertices for a ring of zero area.
Centroid(ring) ==
    LET n == Len(ring) - 1
        a2 == Sum([i \in 1..n |-> Cross(ring[i], ring[i + 1])])
        sx == Sum([i \in 1..n |-> (ring[i][1] + ring[i + 1][1]) * Cross(ring[i], ring[i + 1])])
        sy == Sum([i \in 1..n |-> (ring[i][2] + ring[i + 1][2]) * Cross(ring[i], ring[i + 1])])
        mx == Sum([i \in 1..Len(ring) |-> ring[i][1]]) \div Len(ring)
        my == Sum([i \in 1..Len(ring) |-> ring[i][2]]) \div Len(ring)
    IN  IF a2 # 0 THEN <<sx \div (3 * a2), sy \div (3 * a2)>> ELSE <<mx, my>>

\* tree.query(p): the polygons whose bounding box holds the point.
InBounds(ring, p) ==
    /\ \E i \in 1..Len(ring) : ring[i][1] <= p[1]
    /\ \E i \in 1..Len(ring) : ring[i][1] >= p[1]
    /\ \E i \in 1..Len(ring) : ring[i][2] <= p[2]
    /\ \E i \in 1..Len(ring) : ring[i][2] >= p[2]

Side(a, b, p) == Cross(<<b[1] - a[1], b[2] - a[2]>>, <<p[1] - a[1], p[2] - a[2]>>)

\* poly.contains(p) for a convex ring: the point is strictly on the same side
\* of every edge, so a point of the boundary is not contained.
PolyContains(ring, p) ==
    \/ \A i \in 1..(Len(ring) - 1) : Side(ring[i], ring[i + 1], p) > 0
    \/ \A i \in 1..(Len(ring) - 1) : Side(ring[i], ring[i + 1], p) < 0

----------------------------------------------------------------------------
(* Spatial indexes and joins, data_fetch.py *)

\* geoms and props_list of an index loader: the features with a geometry
\* shapely accepts and that is not empty, each with its properties.
RECURSIVE IndexEntries(_)
IndexEntries(feats) ==
    IF feats = <<>> THEN <<>>
    ELSE LET f == Head(feats)
             g == Shape(f.geometry)
         IN  IF g = None THEN IndexEntries(Tail(feats))
             ELSE <<[ring |-> g.items, props |-> Or(f.properties, PyDict(EmptyDict))]>>
                  \o IndexEntries(Tail(feats))

Reverse(seq) == [i \in 1..Len(seq) |-> seq[Len(seq) + 1 - i]]

\* The STRtree over the entries.  id_to_props is keyed by id(g) of geometry
\* objects the index keeps alive, so each polygon keeps its own properties.
\* The order in which a query visits the polygons is the tree's, not the
\* loader's: rem.tree_reversed chooses between the two orders of the model.
BuildIndex(rem, feats) ==
    IF rem.tree_reversed THEN Reverse(IndexEntries(feats)) ELSE IndexEntries(feats)

CacheHit(cache, key) == \E i \in 1..Len(cache) : cache[i].key = key

CacheValue(cache, key) == cache[CHOOSE i \in 1..Len(cache) : cache[i].key = key].val

\* lru_cache: a hit moves the entry to the most recent end.
CacheTouch(cache, key) ==
    SelectSeq(cache, LAMBDA e : e.key # key)
        \o <<[key |-> key, val |-> CacheValue(cache, key)]>>

\* lru_cache: a miss stores the result and drops the least recent entry
\* once more than maxsize entries are held.
CachePut(cache, key, val, maxsize) ==
    LET c == Append(cache, [key |-> key, val |-> val])
    IN  IF Len(c) > maxsize THEN Tail(c) ELSE c

\* Builds are counted up to MaxBuilds.
MaxBuilds == 2

\* One more run of a loader's body for the window.
Counted(bd, ds, bbox) ==
    IF <<ds, bbox>> \in DOMAIN bd
    THEN [bd EXCEPT ![<<ds, bbox>>] = IF @ < MaxBuilds THEN @ + 1 ELSE @]
    ELSE bd @@ (<<ds, bbox>> :> 1)

\* r is the outcome of the loader's fetch, index the index built from it.
StoreLandUse(r, bbox, index) ==
    Ret([r.m EXCEPT !.land_use_cache = CachePut(@, bbox, index, INDEX_CACHE_SIZE),
                    !.builds = Counted(@, LAND_USE_ID, bbox)], index)

LoadLandUse(r, rem, bbox) ==
    IF r.err THEN r ELSE StoreLandUse(r, bbox, BuildIndex(rem, r.val))

_load_land_use_index(m, rem, bbox) ==
    IF CacheHit(m.land_use_cache, bbox)
    THEN Ret([m EXCEPT !.land_use_cache = CacheTouch(@, bbox)],
             CacheValue(m.land_use_cache, bbox))
    ELSE LoadLandUse(_fetch_bbox_features(m, rem, LAND_USE_ID, LAND_USE_FETCH_LIMIT),
                     rem, bbox)

StoreAssess(r, bbox, index) ==
    Ret([r.m EXCEPT !.assess_cache = CachePut(@, bbox, index, INDEX_CACHE_SIZE),
                    !.builds = Counted(@, ASSESS_ID, bbox)], index)

LoadAssess(r, rem, bbox) ==
    IF r.err THEN r ELSE StoreAssess(r, bbox, BuildIndex(rem, r.val))

_load_assess_index(m, rem, bbox) ==
    IF CacheHit(m.assess_cache, bbox)
    THEN Ret([m EXCEPT !.assess_cache = CacheTouch(@, bbox)],
             CacheValue(m.assess_cache, bbox))
    ELSE LoadAssess(_fetch_bbox_features(m, rem, ASSESS_ID, ASSESS_FETCH_LIMIT),
                    rem, bbox)

\* The first polygon, in query order, that contains the point.
Containing(index, p) ==
    LET hits == {i \in 1..Len(index) :
                    InBounds(index[i].ring, p) /\ PolyContains(index[i].ring, p)}
    IN  IF hits = {} THEN 0 ELSE CHOOSE i \in hits : \A j \in hits : i <= j

ZoningOf(props) ==
    Or(Get(props, k_land_use_district),
       Or(Get(props, k_district),
          Or(Get(props, k_lu_district),
             Or(Get(props, k_code), Get(props, k_lud)))))

AssessedOf(props) ==
    Or(_as_float(Get(props, k_assessed_value)),
       Or(_as_float(Get(props, k_assessment)),
          Or(_as_float(Get(props, k_total_assessed_value)),
             _as_float(Get(props, k_value)))))

\* r is the outcome of the index load, hit the polygon found (0 for none).
Noted(m, ds, p, v) ==
    Ret([m EXCEPT !.joined = Append(@, [ds |-> ds, p |-> p, val |-> v])], v)

ZoningAt(r, p, hit) ==
    IF hit = 0 THEN Noted(r.m, LAND_USE_ID, p, None)
    ELSE Noted(r.m, LAND_USE_ID, p, ZoningOf(r.val[hit].props))

ZoningIn(r, p) == IF r.err THEN r ELSE ZoningAt(r, p, Containing(r.val, p))

_zoning_for_point(m, rem, p, bbox) == ZoningIn(_load_land_use_index(m, rem, bbox), p)

AssessedAt(r, p, hit) ==
    IF hit = 0 THEN Noted(r.m, ASSESS_ID, p, None)
    ELSE Noted(r.m, ASSESS_ID, p, AssessedOf(r.val[hit].props))

AssessedIn(r, p) == IF r.err THEN r ELSE AssessedAt(r, p, Containing(r.val, p))

_assessed_value_for_point(m, rem, p, bbox) ==
    AssessedIn(_load_assess_index(m, rem, bbox), p)

----------------------------------------------------------------------------
(* Building assembler, data_fetch.py *)

VertexMean(ring) ==
    <<Sum([i \in 1..Len(ring) |-> ring[i][1]]) \div Len(ring),
      Sum([i \in 1..Len(ring) |-> ring[i][2]]) \div Len(ring)>>

\* p_centroid: the centroid of the shape, or the mean of the ring's vertices
\* when shapely raises.
CentroidOf(geom, ring) ==
    IF Shape(geom) # None THEN Centroid(Shape(geom).items) ELSE VertexMean(ring)

HeightOf(props) ==
    Or(_as_float(Get(props, k_height)),
       Or(_as_float(Get(props, k_bldg_height)),
          Or(_as_float(Get(props, k_building_height)),
             Or(_as_float(Get(props, k_max_height)), PyFloat(10)))))

RawZoning(props) ==
    Or(Get(props, k_zoning), Or(Get(props, k_land_use), Get(props, k_zone)))

RawAddress(props) ==
    Or(Get(props, k_address), Or(Get(props, k_street_address), Get(props, k_full_address)))

RawAssessed(props) ==
    Or(_as_float(Get(props, k_assessed_value)),
       Or(_as_float(Get(props, k_assessment)), _as_float(Get(props, k_value))))

\* idx is the position in the fetched list, counted from 0.
BuildingId(props, idx) ==
    PyStr(Str(Or(Get(props, k_id),
                 Or(Get(props, k_objectid),
                    Or(Get(props, k_globalid), PyStr(<<"b">> \o NatDigits(idx)))))))

FootprintXY(ring, origin) ==
    [i \in 1..Len(ring) |-> <<ring[i][1] - origin[1], ring[i][2] - origin[2]>>]

Building(bid, height, zoning, assessed_value, address, ring, origin, props) ==
    PyDict((k_id :> bid) @@ (k_height :> PyFloat(Or(height, PyInt(0)).n))
           @@ (k_zoning :> zoning) @@ (k_assessed_value :> assessed_value)
           @@ (k_address :> address) @@ (k_footprint_ll :> PyList(ring))
           @@ (k_footprint_xy :> PyList(FootprintXY(ring, origin)))
           @@ (k_properties :> props))

\* The arguments of one fetch_buildings call that its loop reads.
Ctx(rem, cfg, bbox, limit, feats) ==
    [rem |-> rem, cfg |-> cfg, bbox |-> bbox, limit |-> limit, feats |-> feats]

\* The loop over building_features, from the feature at position idx on
\* (counted from 0), with the buildings assembled so far.
RECURSIVE Assemble(_, _, _, _)

\* The end of one pass: the building is appended; a is the outcome of the
\* assessment join, z.val the zoning join's value.
Appended(cx, idx, buildings, props, ring, z, a) ==
    Append(buildings,
           Building(BuildingId(props, idx), HeightOf(props),
                    IF cx.cfg.zoning THEN Or(z.val, RawZoning(props)) ELSE RawZoning(props),
                    IF cx.cfg.assess THEN Or(a.val, RawAssessed(props)) ELSE RawAssessed(props),
                    RawAddress(props), ring, _bbox_center(cx.bbox), props))

Continue(cx, idx, m, buildings) ==
    IF Len(buildings) >= cx.limit THEN Ret(m, buildings)
    ELSE Assemble(m, cx, idx + 1, buildings)

AfterAssess(cx, idx, buildings, props, ring, z, a) ==
    IF a.err THEN a
    ELSE Continue(cx, idx, a.m, Appended(cx, idx, buildings, props, ring, z, a))

AfterZoning(cx, idx, buildings, props, ring, c, z) ==
    IF z.err THEN z
    ELSE AfterAssess(cx, idx, buildings, props, ring, z,
                     IF cx.cfg.assess
                     THEN _assessed_value_for_point(z.m, cx.rem, c, cx.bbox)
                     ELSE Ret(z.m, None))

\* Mutant: the zoning join is made whatever the switch says.
Joined_Always(m, cx, idx, buildings, props, ring, c) ==
    AfterZoning(cx, idx, buildings, props, ring, c,
                _zoning_for_point(m, cx.rem, c, cx.bbox))

Joined(m, cx, idx, buildings, props, ring, c) ==
    AfterZoning(cx, idx, buildings, props, ring, c,
                IF cx.cfg.zoning THEN _zoning_for_point(m, cx.rem, c, cx.bbox)
                ELSE Ret(m, None))

Pass(m, cx, idx, buildings, f, ring) ==
    IF ring = None \/ Len(ring.items) < 3 THEN Assemble(m, cx, idx + 1, buildings)
    ELSE Joined(m, cx, idx, buildings, Or(f.properties, PyDict(EmptyDict)), ring.items,
                CentroidOf(f.geometry, ring.items))

Assemble(m, cx, idx, buildings) ==
    IF idx >= Len(cx.feats) THEN Ret(m, buildings)
    ELSE Pass(m, cx, idx, buildings, cx.feats[idx + 1],
              _extract_ring_coords(cx.feats[idx + 1].geometry))

Payload(bbox, geom_field, buildings) ==
    PyDict([bbox |-> bbox,
            projection |-> [coord_system |-> "EPSG:4326_lonlat_degrees",
                            origin_x |-> _bbox_center(bbox)[1],
                            origin_y |-> _bbox_center(bbox)[2]],
            geom_field_used |-> geom_field,
            count |-> Len(buildings),
            buildings |-> buildings])

\* g is the outcome of the closing _discover_geom_field call.
Answer(g, bbox, buildings) ==
    IF g.err THEN g ELSE Ret(g.m, Payload(bbox, g.val, buildings))

\* Mutant: the empty result is answered like any other.
Assembled_EmptyAllowed(r, rem, bbox) ==
    IF r.err THEN r
    ELSE Answer(_discover_geom_field(r.m, rem, BUILDINGS_ID), bbox, r.val)

\* r is the outcome of the loop.
Assembled(r, rem, bbox) ==
    IF r.err THEN r
    ELSE IF r.val = <<>> THEN Fail(r.m, "EmptyResult")
    ELSE Answer(_discover_geom_field(r.m, rem, BUILDINGS_ID), bbox, r.val)

\* fr is the outcome of the buildings fetch.
Fetched(fr, rem, cfg, bbox, limit) ==
    IF fr.err THEN fr
    ELSE Assembled(Assemble(fr.m, Ctx(rem, cfg, bbox, limit, fr.val), 0, <<>>), rem, bbox)

\* bbox0 and limit0 are the caller's, None when not given.
fetch_buildings(m, rem, cfg, bbox0, limit0) ==
    Fetched(_fetch_bbox_features(m, rem, BUILDINGS_ID, BUILDINGS_FETCH_LIMIT), rem, cfg,
            IF bbox0 = None THEN DEFAULT_BBOX ELSE bbox0,
            Or(limit0, PyInt(RETURN_LIMIT)).n)

----------------------------------------------------------------------------
(* Project persistence, data_fetch.py *)

k_username == <<"u", "s", "e", "r", "n", "a", "m", "e">>
k_name == <<"n", "a", "m", "e">>
k_filters == <<"f", "i", "l", "t", "e", "r", "s">>
k_matched_ids == <<"m", "a", "t", "c", "h", "e", "d", "_", "i", "d", "s">>
k_selected_building_id ==
    <<"s", "e", "l", "e", "c", "t", "e", "d", "_", "b", "u", "i", "l", "d", "i", "n", "g", "_", "i", "d">>
k_projects == <<"p", "r", "o", "j", "e", "c", "t", "s">>

\* A lone surrogate: a character json.loads accepts in a request body and the
\* utf-8 encoder of a file refuses.
Surrogate == "U+D800"

\* Whether json.dump(v, f, ensure_ascii=False) into a utf-8 file goes through.
RECURSIVE Encodable(_)
Encodable(v) ==
    CASE v.t = "str" -> \A i \in 1..Len(v.s) : v.s[i] # Surrogate
      [] v.t = "list" -> \A i \in 1..Len(v.items) : Encodable(v.items[i])
      [] v.t = "dict" -> \A k \in DOMAIN v.d : Encodable(PyStr(k)) /\ Encodable(v.d[k])
      [] OTHER -> TRUE

\* re.sub(r"[^a-z0-9_\-\.]", "_", u), one character
SafeChar(c) ==
    IF (\E i \in 1..26 : LowerChars[i] = c) \/ IsDigit(c) \/ c \in {"_", "-", "."}
    THEN c ELSE "_"

Sanitized(t) == [i \in 1..Len(t) |-> SafeChar(t[i])]

UserOr(t) == IF t = <<>> THEN <<"u", "s", "e", "r">> ELSE t

_safe_user(u) == UserOr(Sanitized(Lower(Strip(Or(u, EmptyStr).s))))

\* The file of a user below data/projects, named without directory and extension.
_project_path(username) == _safe_user(username)

\* What a file holds after a write that raised part-way: not a JSON document.
Corrupt == [t |-> "corrupt"]

\* The outcome of a call on the store: a value, or the exception raised.
Got(v) == [err |-> FALSE, val |-> v]
Threw(e) == [err |-> TRUE, val |-> e]

NoProjects == PyDict(k_projects :> PyDict(EmptyDict))

_load_user_projects(fs, username) ==
    IF _project_path(username) \notin DOMAIN fs THEN Got(NoProjects)
    ELSE IF fs[_project_path(username)] = Corrupt THEN Threw("JSONDecodeError")
    ELSE Got(fs[_project_path(username)])

\* f with key k set to v.
Put(f, k, v) == [x \in DOMAIN f \cup {k} |-> IF x = k THEN v ELSE f[x]]

\* open(path, "w") empties the file.
Truncated(fs, username) == Put(fs, _project_path(username), Corrupt)

\* json.dump into the opened file: when it raises, the file is left without
\* a JSON document.
_save_user_projects(fs, username, data) ==
    IF Encodable(data)
    THEN [files |-> Put(Truncated(fs, username), _project_path(username), data), err |-> FALSE]
    ELSE [files |-> Truncated(fs, username), err |-> TRUE]

Status(code, body) == [status |-> code, body |-> body]

\* str(payload.get(key) or "").strip()
Trimmed(body, key) == Strip(Str(Or(Get(body, key), EmptyStr)))

\* selected_building_id, as text unless None
SelectedOf(d) ==
    IF Get(d, k_selected_building_id) # None
    THEN PyStr(Str(Get(d, k_selected_building_id))) ELSE None

ProjectEntry(name, filters, matched, selected) ==
    PyDict((k_name :> PyStr(name)) @@ (k_filters :> filters)
           @@ (k_matched_ids :> matched) @@ (k_selected_building_id :> selected))

\* api_save from the user's file read to the entry to store; matched is the
\* outcome of compute_matched_ids, data that of _load_user_projects.
Entered(body, matched, data) ==
    IF matched.t = "raise" THEN [done |-> TRUE, response |-> Status(500, matched.e)]
    ELSE IF data.err THEN [done |-> TRUE, response |-> Status(500, data.val)]
    ELSE [done |-> FALSE,
          username |-> Trimmed(body, k_username),
          name |-> Trimmed(body, k_name),
          data |-> data.val,
          entry |-> ProjectEntry(Trimmed(body, k_name),
                                 Or(Get(body, k_filters), PyList(<<>>)),
                                 matched, SelectedOf(body))]

\* api_save up to and including the read of the user's file; e is the outcome
\* of _ensure_latest_payload.
Prepared(e, fs, body) ==
    IF Trimmed(body, k_username) = <<>>
    THEN [done |-> TRUE, response |-> Status(400, "username is required")]
    ELSE IF Trimmed(body, k_name) = <<>>
    THEN [done |-> TRUE, response |-> Status(400, "name is required")]
    ELSE IF e.err THEN [done |-> TRUE, response |-> Status(500, e.val)]
    ELSE Entered(body,
                 compute_matched_ids(e.val.d.buildings, Or(Get(body, k_filters), PyList(<<>>))),
                 _load_user_projects(fs, PyStr(Trimmed(body, k_username))))

\* data["projects"][name] = entry, "projects" added when the file had none
WithProject(data, name, entry) ==
    PyDict(Put(data.d, k_projects,
               PyDict(Put(IF k_projects \in DOMAIN data.d THEN data.d[k_projects].d
                          ELSE EmptyDict,
                          name, entry))))

\* w is the outcome of _save_user_projects.
Written(w, pr) ==
    [files |-> w.files,
     response |-> IF w.err THEN Status(500, "UnicodeEncodeError")
                  ELSE Status(200, [ok |-> TRUE, saved |-> pr.name,
                                    matched_count |-> Len(pr.entry.d[k_matched_ids].items)])]

\* api_save from the update of the data read to the response.
Commit(fs, pr) ==
    Written(_save_user_projects(fs, PyStr(pr.username),
                                WithProject(pr.data, pr.name, pr.entry)), pr)

----------------------------------------------------------------------------
(* The data the portal may serve *)

MaxFeatures == 2
MaxFilters == 2

SeqsUpTo(S, n) == UNION {[1..k -> S] : k \in 0..n}

Dict1(k1, v1) == PyDict(k1 :> v1)
Dict2(k1, v1, k2, v2) == PyDict((k1 :> v1) @@ (k2 :> v2))
Dict3(k1, v1, k2, v2, k3, v3) == PyDict((k1 :> v1) @@ (k2 :> v2) @@ (k3 :> v3))
Dict4(k1, v1, k2, v2, k3, v3, k4, v4) ==
    PyDict((k1 :> v1) @@ (k2 :> v2) @@ (k3 :> v3) @@ (k4 :> v4))

Polygon(ring) == [type |-> "Polygon", coordinates |-> <<ring>>]
MultiPolygon(ring) == [type |-> "MultiPolygon", coordinates |-> << <<ring>> >>]
Feature(geom, props) == [geometry |-> geom, properties |-> props]

\* Two building footprints with centroids (2, 1) and (12, 1), and a ring
\* too short to be a footprint.
RingA == << <<0, 0>>, <<4, 0>>, <<4, 2>>, <<0, 2>>, <<0, 0>> >>
RingB == << <<10, 0>>, <<14, 0>>, <<14, 2>>, <<10, 2>>, <<10, 0>> >>
RingShort == << <<0, 0>>, <<1, 1>> >>

\* Join polygons: RingZ and RingWide hold (2, 1) strictly inside, RingEdge
\* has it on its boundary; none holds (12, 1).
RingZ == << <<1, -1>>, <<3, -1>>, <<3, 3>>, <<1, 3>>, <<1, -1>> >>
RingWide == << <<-2, -2>>, <<6, -2>>, <<6, 4>>, <<-2, 4>>, <<-2, -2>> >>
RingEdge == << <<2, -1>>, <<5, -1>>, <<5, 3>>, <<2, 3>>, <<2, -1>> >>

s_RCG == PyStr(<<"R", "C", "-", "G">>)
s_M1 == PyStr(<<"M", "-", "1">>)
s_DC == PyStr(<<"D", "C">>)
s_CC == PyStr(<<"C", "C">>)
s_S == PyStr(<<"S">>)

BuildingFeatures ==
    { Feature(Polygon(RingA),
              Dict4(k_id, PyInt(7), k_height, PyStr(<<"4", "5">>), k_zoning, s_RCG,
                    k_assessed_value, PyInt(900))),
      Feature(Polygon(RingA),
              Dict3(k_objectid, PyStr(<<"7">>), k_height, PyInt(0), k_bldg_height, PyInt(30))),
      Feature(Polygon(RingB), None),
      Feature(Polygon(RingB),
              Dict3(k_id, PyStr(<<"b", "1">>), k_zone, s_M1, k_value, PyStr(<<"2", "5", "0">>))),
      Feature(Polygon(RingShort), Dict1(k_id, PyInt(9))),
      Feature(MultiPolygon(RingA),
              Dict4(k_id, PyInt(0), k_globalid, PyStr(<<"g">>),
                    k_height, PyStr(<<"t", "a", "l", "l">>), k_max_height, PyFloat(12))) }

\* The land-use and assessment datasets served together, and the order in
\* which the index built from them answers a query.
JoinWorlds ==
    { [land_use |-> <<>>, assess |-> <<>>, tree_reversed |-> FALSE],
      [land_use |-> << Feature(None, Dict1(k_land_use_district, s_CC)),
                       Feature(Polygon(RingZ), Dict1(k_land_use_district, s_DC)) >>,
       assess |-> << Feature(Polygon(RingZ), Dict1(k_assessed_value, PyStr(<<"5", "0", "0">>))) >>,
       tree_reversed |-> FALSE],
      [land_use |-> << Feature(Polygon(RingZ), Dict2(k_land_use_district, EmptyStr, k_district, s_CC)) >>,
       assess |-> << Feature(Polygon(RingZ), Dict2(k_assessed_value, PyInt(0),
                                                   k_total_assessed_value, PyInt(750))) >>,
       tree_reversed |-> FALSE],
      [land_use |-> << Feature(Polygon(RingZ), Dict1(k_lud, EmptyStr)) >>,
       assess |-> << Feature(Polygon(RingEdge), Dict1(k_value, PyInt(600))),
                     Feature(Polygon(RingZ), Dict1(k_value, PyInt(0))) >>,
       tree_reversed |-> FALSE],
      [land_use |-> << Feature(Polygon(RingZ), Dict1(k_code, s_M1)),
                       Feature(Polygon(RingWide), Dict1(k_lu_district, s_S)) >>,
       assess |-> << Feature(Polygon(RingWide), Dict1(k_assessment, PyStr(<<"5", "0", "0">>))) >>,
       tree_reversed |-> FALSE],
      [land_use |-> << Feature(Polygon(RingZ), Dict1(k_code, s_M1)),
                       Feature(Polygon(RingWide), Dict1(k_lu_district, s_S)) >>,
       assess |-> << Feature(Polygon(RingWide), Dict1(k_assessment, PyStr(<<"5", "0", "0">>))) >>,
       tree_reversed |-> TRUE] }

Datasets == {BUILDINGS_ID, LAND_USE_ID, ASSESS_ID}

\* Which datasets answer: all, only the buildings, all but the buildings.
Outages ==
    { [ds \in Datasets |-> TRUE],
      [ds \in Datasets |-> ds = BUILDINGS_ID],
      [ds \in Datasets |-> ds # BUILDINGS_ID] }

Remote(buildings, world, up) ==
    [features |-> (BUILDINGS_ID :> buildings) @@ (LAND_USE_ID :> world.land_use)
                  @@ (ASSESS_ID :> world.assess),
     tree_reversed |-> world.tree_reversed,
     up |-> up]

----------------------------------------------------------------------------
(* Requests *)

h_gt == <<"g", "t">>
h_lt == <<"l", "t">>
h_ge == <<"g", "e">>
h_le == <<"l", "e">>
h_gte == <<"g", "t", "e">>
h_lte == <<"l", "t", "e">>
h_eq == <<"e", "q">>
h_neq == <<"n", "e", "q">>
h_contains == <<"c", "o", "n", "t", "a", "i", "n", "s">>
h_between == <<"b", "e", "t", "w", "e", "e", "n">>

Filter(attr, op, val) ==
    PyDict((k_attribute :> attr) @@ (k_operator :> op) @@ (k_value :> val))

\* Filters combined into lists of up to MaxFilters entries.
ListFilters ==
    { Filter(PyStr(k_height), PyStr(h_gt), PyStr(<<"3", "0">>)),
      Filter(PyStr(k_zoning), PyStr(h_contains), PyStr(<<"r", "c">>)),
      Filter(PyStr(k_height), PyStr(h_between), PyInt(5)),
      Dict2(k_operator, PyStr(h_gt), k_value, PyInt(5)),
      Filter(PyStr(k_assessed_value), PyStr(h_neq), PyStr(<<"a", "b", "c">>)),
      PyInt(5) }

NumericOps ==
    { PyStr(h_gt), PyStr(h_lt), PyStr(h_ge), PyStr(h_le), PyStr(h_gte), PyStr(h_lte),
      PyStr(h_eq), PyStr(h_neq), PyStr(<<" ", "G", "T", " ">>), PyStr(<<">", "=">>),
      PyStr(<<"<", "=">>), PyStr(h_between), EmptyStr, None }

NumericOperands ==
    { PyStr(<<"3", "0">>), PyInt(45), PyStr(<<"1", ",", "0", "0", "0">>),
      PyStr(<<" ", "9", "0", "0", " ">>), PyStr(<<"a", "b", "c">>), None }

\* Single filters on the numeric attributes, and filters without a usable
\* attribute.
SingleFilters ==
    { Filter(PyStr(a), op, v) : a \in NumericAttrs, op \in NumericOps, v \in NumericOperands }
    \cup { Filter(a, PyStr(h_gt), PyInt(5)) : a \in {None, EmptyStr, PyStr(<<" ">>)} }

\* The "filters" member of a request body: absent, a list, or not a list.
FilterInputs ==
    {PyList(fs) : fs \in SeqsUpTo(ListFilters, MaxFilters)}
    \cup {PyList(<<f>>) : f \in SingleFilters}
    \cup {None, PyInt(5), PyStr(<<"g", "t">>)}

h_starts_with == <<"s", "t", "a", "r", "t", "s", "_", "w", "i", "t", "h">>
h_ends_with == <<"e", "n", "d", "s", "_", "w", "i", "t", "h">>

TextOps == {h_contains, h_starts_with, h_ends_with, h_eq, h_neq}

\* Filter values in both letter cases, the empty text and no value.
TextOperands ==
    { PyStr(<<"r", "c">>), PyStr(<<"R", "C">>), PyStr(<<"r", "c", "-", "g">>),
      PyStr(<<"R", "C", "-", "G">>), PyStr(<<"R", "c", "-", "g">>), PyStr(<<"-", "G">>),
      PyStr(<<"m">>), EmptyStr, None }

\* One filter on the zoning attribute.
TextFilterInputs ==
    { PyList(<< Filter(PyStr(k_zoning), PyStr(op), v) >>) : op \in TextOps, v \in TextOperands }

\* Buildings whose raw zoning differs in letter case, or is absent.
ZonedFeatures ==
    { Feature(Polygon(RingA), Dict2(k_id, PyInt(1), k_zoning, s_RCG)),
      Feature(Polygon(RingA), Dict2(k_id, PyInt(2), k_zoning, PyStr(<<"r", "c", "-", "g">>))),
      Feature(Polygon(RingB), Dict2(k_id, PyInt(3), k_zone, s_M1)),
      Feature(Polygon(RingB), Dict2(k_id, PyInt(4), k_land_use, PyStr(<<"R", "c">>))),
      Feature(Polygon(RingB), Dict1(k_id, PyInt(5))) }

\* One window more than an index cache holds.
NumWindows == INDEX_CACHE_SIZE + 1

\* Windows of the query string, all with north > south and east > west; their
\* centres lie on the integer grid of the model.
Window(k) == [south |-> -10 - 2 * k, west |-> -10, north |-> 20, east |-> 30 + 4 * k]

Indexed(k) == <<LAND_USE_ID, Window(k)>> \in DOMAIN builds

\* The first window that no land-use index was built for.
NextWindow ==
    {Window(k) : k \in {n \in 1..NumWindows : ~Indexed(n) /\ \A j \in 1..(n - 1) : Indexed(j)}}

\* The threads of the development server that serve save requests.
Workers == {"t1", "t2"}

\* Usernames of request bodies: two that differ in case only, and a third.
Usernames == {<<"b", "o", "b">>, <<"B", "o", "b">>, <<"a", "l">>}

ProjectNames == {<<"p">>, <<"q">>}

\* The filters of a save: on the height, and on the zoning with a text the
\* project file cannot encode.
SaveFilters ==
    { PyList(<<Filter(PyStr(k_height), PyStr(h_gt), PyStr(<<"3", "0">>))>>),
      PyList(<<Filter(PyStr(k_zoning), PyStr(h_contains), PyStr(<<Surrogate>>))>>) }

SaveBody(username, name, filters, selected) ==
    Dict4(k_username, PyStr(username), k_name, PyStr(name), k_filters, filters,
          k_selected_building_id, selected)

SaveBodies ==
    { SaveBody(u, n, f, PyInt(7)) : u \in Usernames, n \in ProjectNames, f \in SaveFilters }
    \cup { SaveBody(<<"a", "l">>, <<"p">>, None, None), SaveBody(<<" ">>, <<"p">>, None, None) }

LoadBodies ==
    { Dict2(k_username, PyStr(u), k_name, PyStr(n)) :
        u \in Usernames, n \in ProjectNames \cup {<<"o", "l", "d">>} }

\* A file written by an earlier version of the service: its project has no
\* matched_ids.
LegacyFile ==
    PyDict(k_projects :> PyDict(<<"o", "l", "d">> :>
        Dict3(k_name, PyStr(<<"o", "l", "d">>),
              k_filters, PyList(<<Filter(PyStr(k_height), PyStr(h_gt), PyStr(<<"3", "0">>))>>),
              k_selected_building_id, PyInt(7))))

\* The limit of the query string: absent, or text.
Limits == {None, PyStr(<<"1">>)}

\* int(s)
IntOfStr(s0) ==
    LET s == Strip(s0)
        neg == s # <<>> /\ Head(s) = "-"
        u == IF s # <<>> /\ Head(s) \in {"-", "+"} THEN Tail(s) ELSE s
    IN  IF u # <<>> /\ AllDigits(u)
        THEN PyInt(IF neg THEN 0 - DigitsValue(u) ELSE DigitsValue(u))
        ELSE None

Cfg == [zoning |-> ENABLE_ZONING_JOIN, assess |-> ENABLE_ASSESS_JOIN]

Memory == Mem(geom_field_cache, land_use_cache, assess_cache, builds)

Remember(m) ==
    /\ geom_field_cache' = m.geom_cache
    /\ land_use_cache' = m.land_use_cache
    /\ assess_cache' = m.assess_cache
    /\ requested' = m.requested
    /\ joined' = m.joined
    /\ builds' = m.builds

_ensure_latest_payload(m, rem, cfg, latest) ==
    IF Truthy(latest) THEN Ret(m, latest) ELSE fetch_buildings(m, rem, cfg, None, None)

\* Mutant: a failed request clears the held payload.
Latest_Cleared(r, latest) == IF r.err THEN None ELSE r.val

\* LATEST_PAYLOAD after fetch_buildings ended as r: the assignment is not
\* reached when the call raises.
Latest(r, latest) == IF r.err THEN latest ELSE r.val

\* GET /api/buildings of data_fetch.py, the limit and the window of the
\* query string drawn from limits and windows.
Buildings(limits, windows) ==
    /\ request = None
    /\ \E limit \in limits, bbox \in windows :
       \E r \in {fetch_buildings(Memory, remote, Cfg, bbox,
                                   IF Truthy(limit) THEN IntOfStr(limit.s) ELSE None)} :
             /\ request' = [op |-> "api_buildings", limit |-> limit, bbox |-> bbox]
             /\ Remember(r.m)
             /\ LATEST_PAYLOAD' = Latest(r, LATEST_PAYLOAD)
             /\ response' = IF r.err THEN Status(500, r.val) ELSE Status(200, r.val)
    /\ UNCHANGED <<ENABLE_ZONING_JOIN, ENABLE_ASSESS_JOIN, remote>>
    /\ UNCHANGED store

ApiBuildings == Buildings(Limits, {None})

\* The same route asked for the default window or for the first of the
\* windows that no index was built for yet: the windows differ in nothing
\* but their bounds, so the order they are first asked for in is fixed.
ApiBuildingsWindow == Buildings({None}, {None} \cup NextWindow)

\* The portal's datasets go down and come back between requests.
PortalChange ==
    /\ request = None
    /\ \E up \in Outages \ {remote.up} : remote' = [remote EXCEPT !.up = up]
    /\ UNCHANGED <<ENABLE_ZONING_JOIN, ENABLE_ASSESS_JOIN, geom_field_cache, land_use_cache,
                   assess_cache, LATEST_PAYLOAD, request, response, requested, joined, builds>>
    /\ UNCHANGED store

\* POST /api/apply_filters of data_fetch.py, the "filters" member of the body
\* drawn from inputs.
ApplyFilters(inputs) ==
    /\ request = None
    /\ \E e \in {_ensure_latest_payload(Memory, remote, Cfg, LATEST_PAYLOAD)} :
           /\ Remember(e.m)
           /\ LATEST_PAYLOAD' = IF e.err THEN LATEST_PAYLOAD ELSE e.val
           /\ \E input \in inputs :
                LET filters == Or(input, PyList(<<>>))
                    matched == compute_matched_ids(e.val.d.buildings, filters)
                IN  /\ request' = [op |-> "api_apply_filters", filters |-> input]
                    /\ response' = IF e.err THEN Status(500, e.val)
                                   ELSE IF matched.t = "raise" THEN Status(500, matched.e)
                                   ELSE Status(200, [matched_ids |-> matched.items,
                                                     count |-> Len(matched.items)])
    /\ UNCHANGED <<ENABLE_ZONING_JOIN, ENABLE_ASSESS_JOIN, remote>>
    /\ UNCHANGED store

ApiApplyFilters == ApplyFilters(FilterInputs)

\* The same route asked about text attributes.
ApiApplyTextFilters == ApplyFilters(TextFilterInputs)

\* POST /api/apply_filters of app.py
AppApplyFilters ==
    /\ request = None
    /\ \E r \in {fetch_buildings(Memory, remote, Cfg, None, None)} :
           \E input \in FilterInputs :
             LET filters == Or(input, PyList(<<>>))
                 matched == ApplyLoop(r.val.d.buildings, filters.items, <<>>)
             IN  /\ request' = [op |-> "app_apply_filters", filters |-> input]
                 /\ IF filters.t # "list"
                    THEN /\ response' = Status(400, "filters must be a list")
                         /\ UNCHANGED <<geom_field_cache, land_use_cache, assess_cache,
                                        requested, joined, builds>>
                    ELSE /\ Remember(r.m)
                         /\ response' = IF r.err THEN Status(500, r.val)
                                        ELSE IF matched.t = "raise" THEN Status(500, matched.e)
                                        ELSE Status(200, [matched_ids |-> matched.items,
                                                          count |-> Len(matched.items)])
    /\ UNCHANGED <<ENABLE_ZONING_JOIN, ENABLE_ASSESS_JOIN, remote, LATEST_PAYLOAD>>
    /\ UNCHANGED store

\* What the last save of each project stored: the project (file, name) of a
\* save that ended as c is recorded when it succeeded and forgotten when not.
Recorded(sv, body, pr, c) ==
    IF pr.done /\ pr.response.status = 400 THEN sv
    ELSE IF c.response.status = 200
    THEN Put(sv, <<_safe_user(PyStr(pr.username)), pr.name>>,
             [filters |-> Get(body, k_filters),
              selected |-> Get(body, k_selected_building_id),
              matched |-> pr.entry.d[k_matched_ids]])
    ELSE [k \in DOMAIN sv \ {<<_safe_user(PyStr(pr.username)), pr.name>>} |-> sv[k]]

\* Whether api_save gets past the checks of the body.
Complete(body) == Trimmed(body, k_username) # <<>> /\ Trimmed(body, k_name) # <<>>

\* POST /api/save, served without another request in between.
ApiSave ==
    /\ request = None
    /\ \E body \in SaveBodies :
       \E e \in {IF Complete(body) THEN _ensure_latest_payload(Memory, remote, Cfg, LATEST_PAYLOAD)
                 ELSE Ret(Memory, LATEST_PAYLOAD)} :
       \E pr \in {Prepared(e, files, body) @@ [username |-> Trimmed(body, k_username),
                                              name |-> Trimmed(body, k_name)]} :
       \E c \in {IF pr.done THEN [files |-> files, response |-> pr.response]
                 ELSE Commit(files, pr)} :
             /\ request' = [op |-> "api_save", body |-> body]
             /\ Remember(e.m)
             /\ LATEST_PAYLOAD' = IF e.err THEN LATEST_PAYLOAD ELSE e.val
             /\ files' = c.files
             /\ response' = c.response
             /\ saved' = Recorded(saved, body, pr, c)
    /\ UNCHANGED <<ENABLE_ZONING_JOIN, ENABLE_ASSESS_JOIN, remote, saving>>

\* api_load up to the project read from the user's file.
Looked(fs, body, data) ==
    IF Trimmed(body, k_username) = <<>>
    THEN [done |-> TRUE, response |-> Status(400, "username is required")]
    ELSE IF Trimmed(body, k_name) = <<>>
    THEN [done |-> TRUE, response |-> Status(400, "name is required")]
    ELSE IF data.err THEN [done |-> TRUE, response |-> Status(500, data.val)]
    ELSE IF ~Truthy(Get(Or(Get(data.val, k_projects), PyDict(EmptyDict)),
                        Trimmed(body, k_name)))
    THEN [done |-> TRUE, response |-> Status(404, "project not found")]
    ELSE [done |-> FALSE, name |-> Trimmed(body, k_name),
          proj |-> Get(Get(data.val, k_projects), Trimmed(body, k_name))]

\* [str(x) for x in matched_ids]
Strings(items) == [i \in 1..Len(items) |-> PyStr(Str(items[i]))]

\* api_load from the matched ids, stored or computed, to the response.
Loaded(lk, matched) ==
    IF matched.t = "raise" THEN Status(500, matched.e)
    ELSE Status(200, [name |-> lk.name,
                      filters |-> Or(Get(lk.proj, k_filters), PyList(<<>>)),
                      matched_ids |-> Strings(matched.items),
                      selected_building_id |-> SelectedOf(lk.proj)])

\* isinstance(proj.get("matched_ids"), list)
HasMatched(proj) == Get(proj, k_matched_ids).t = "list"

\* POST /api/load
ApiLoad ==
    /\ request = None
    /\ \E body \in LoadBodies :
       \E lk \in {Looked(files, body,
                         _load_user_projects(files, PyStr(Trimmed(body, k_username))))} :
       \E e \in {IF ~lk.done /\ ~HasMatched(lk.proj)
                 THEN _ensure_latest_payload(Memory, remote, Cfg, LATEST_PAYLOAD)
                 ELSE Ret(Memory, LATEST_PAYLOAD)} :
             /\ request' = [op |-> "api_load", body |-> body]
             /\ Remember(e.m)
             /\ LATEST_PAYLOAD' = IF e.err THEN LATEST_PAYLOAD ELSE e.val
             /\ response' =
                  IF lk.done THEN lk.response
                  ELSE IF e.err THEN Status(500, e.val)
                  ELSE IF HasMatched(lk.proj) THEN Loaded(lk, Get(lk.proj, k_matched_ids))
                  ELSE Loaded(lk, compute_matched_ids(e.val.d.buildings,
                                                      Or(Get(lk.proj, k_filters), PyList(<<>>))))
    /\ UNCHANGED <<ENABLE_ZONING_JOIN, ENABLE_ASSESS_JOIN, remote>>
    /\ UNCHANGED store

\* One entry of the listing.
Summary(name, proj) ==
    [name |-> PyStr(name),
     filters |-> Or(Get(proj, k_filters), PyList(<<>>)),
     selected_building_id |-> Get(proj, k_selected_building_id),
     matched_ids |-> Or(Get(proj, k_matched_ids), PyList(<<>>))]

\* The listing of a user's projects. The names of a file are distinct, so the
\* list sorted by name is given by its entry for each name.
Listing(data) ==
    IF data.err THEN Status(500, data.val)
    ELSE Status(200, [projects |->
            [n \in DOMAIN Or(Get(data.val, k_projects), PyDict(EmptyDict)).d |->
                Summary(n, Get(data.val, k_projects).d[n])]])

\* GET /api/projects/<username>
ApiProjects ==
    /\ request = None
    /\ \E username \in Usernames :
          /\ request' = [op |-> "api_projects", username |-> username]
          /\ response' = Listing(_load_user_projects(files, PyStr(username)))
    /\ UNCHANGED <<ENABLE_ZONING_JOIN, ENABLE_ASSESS_JOIN, remote, geom_field_cache,
                   land_use_cache, assess_cache, LATEST_PAYLOAD, requested, joined, builds>>
    /\ UNCHANGED store

\* The bodies of the saves served by the threads: one user, two projects.
ThreadBodies ==
    { SaveBody(<<"b", "o", "b">>, n, f, PyInt(7)) : n \in ProjectNames, f \in SaveFilters }

\* A thread's position in api_save.
AtRead(body, pr) == [phase |-> "read", body |-> body, pr |-> pr]
AtOpen(body, pr, dirty) == [phase |-> "open", body |-> body, pr |-> pr, dirty |-> dirty]
AtDone(body, resp) == [phase |-> "done", body |-> body, response |-> resp]

At(w, phase) == saving[w] # None /\ saving[w].phase = phase

\* A thread takes a save request and runs api_save up to and including the
\* read of the user's file.
SaveBegin(w) ==
    /\ saving[w] = None
    /\ \E body \in ThreadBodies :
       \E e \in {IF Complete(body) THEN _ensure_latest_payload(Memory, remote, Cfg, LATEST_PAYLOAD)
                 ELSE Ret(Memory, LATEST_PAYLOAD)} :
       \E pr \in {Prepared(e, files, body)} :
             /\ Remember(e.m)
             /\ LATEST_PAYLOAD' = IF e.err THEN LATEST_PAYLOAD ELSE e.val
             /\ saving' = [saving EXCEPT ![w] = IF pr.done THEN AtDone(body, pr.response)
                                                ELSE AtRead(body, pr)]
    /\ UNCHANGED <<ENABLE_ZONING_JOIN, ENABLE_ASSESS_JOIN, remote, request, response,
                   files, saved>>

\* The thread updates the data it read and opens the user's file for writing.
SaveOpen(w) ==
    /\ At(w, "read")
    /\ files' = Truncated(files, PyStr(saving[w].pr.username))
    /\ saving' = [saving EXCEPT ![w] = AtOpen(@.body, @.pr, FALSE)]
    /\ UNCHANGED <<ENABLE_ZONING_JOIN, ENABLE_ASSESS_JOIN, remote, geom_field_cache,
                   land_use_cache, assess_cache, LATEST_PAYLOAD, request, response,
                   requested, joined, builds, saved>>

\* What the file can hold once the thread's document was dumped into it: the
\* document, or, when another thread wrote to the file since this one opened
\* it, the document followed by the rest of a longer one.
Dumped(data, dirty) ==
    IF ~Encodable(data) THEN {Corrupt}
    ELSE IF dirty THEN {data, Corrupt}
    ELSE {data}

\* The threads that hold the file of username open while w writes to it.
Overwritten(w, username) ==
    {v \in Workers \ {w} : At(v, "open")
                           /\ _project_path(PyStr(saving[v].pr.username))
                              = _project_path(PyStr(username))}

\* The thread dumps its document, closes the file and has its response.
SaveDump(w) ==
    /\ At(w, "open")
    /\ \E content \in Dumped(WithProject(saving[w].pr.data, saving[w].pr.name,
                                         saving[w].pr.entry), saving[w].dirty) :
       \E c \in {Written([files |-> Put(files, _project_path(PyStr(saving[w].pr.username)),
                                        content),
                          err |-> ~Encodable(WithProject(saving[w].pr.data, saving[w].pr.name,
                                                         saving[w].pr.entry))],
                         saving[w].pr)} :
             /\ files' = c.files
             /\ saving' = [v \in Workers |->
                             IF v = w THEN AtDone(saving[w].body, c.response)
                             ELSE IF v \in Overwritten(w, saving[w].pr.username)
                             THEN [saving[v] EXCEPT !.dirty = TRUE]
                             ELSE saving[v]]
    /\ UNCHANGED <<ENABLE_ZONING_JOIN, ENABLE_ASSESS_JOIN, remote, geom_field_cache,
                   land_use_cache, assess_cache, LATEST_PAYLOAD, request, response,
                   requested, joined, builds, saved>>

\* The thread sends its response and is free for the next request.
SaveReturn(w) ==
    /\ At(w, "done")
    /\ saving' = [saving EXCEPT ![w] = None]
    /\ requested' = {}
    /\ joined' = <<>>
    /\ UNCHANGED <<ENABLE_ZONING_JOIN, ENABLE_ASSESS_JOIN, remote, geom_field_cache,
                   land_use_cache, assess_cache, LATEST_PAYLOAD, request, response,
                   builds, files, saved>>

\* The response is sent; the worker is free for the next request.
Return ==
    /\ request # None
    /\ request' = None
    /\ response' = None
    /\ requested' = {}
    /\ joined' = <<>>
    /\ UNCHANGED <<ENABLE_ZONING_JOIN, ENABLE_ASSESS_JOIN, remote, geom_field_cache,
                   land_use_cache, assess_cache, LATEST_PAYLOAD, builds>>
    /\ UNCHANGED store

\* The process after start-up: nothing cached, no request in progress.
Started ==
    /\ geom_field_cache = {}
    /\ land_use_cache = <<>>
    /\ assess_cache = <<>>
    /\ LATEST_PAYLOAD = None
    /\ request = None
    /\ response = None
    /\ requested = {}
    /\ joined = <<>>
    /\ builds = <<>>
    /\ saving = [w \in Workers |-> None]
    /\ saved = <<>>

\* The same with no project file in data/projects.
Idle == Started /\ files = <<>>

\* The buildings service: any configuration of the joins, any served data.
Init ==
    /\ ENABLE_ZONING_JOIN \in BOOLEAN
    /\ ENABLE_ASSESS_JOIN \in BOOLEAN
    /\ remote \in {Remote(b, w, up) : b \in SeqsUpTo(BuildingFeatures, MaxFeatures),
                                      w \in JoinWorlds, up \in Outages}
    /\ Idle

Next == ApiBuildings \/ Return

Spec == Init /\ [][Next]_vars

PlainWorld == CHOOSE w \in JoinWorlds : Len(w.land_use) = 2 /\ Len(w.assess) = 1 /\ ~w.tree_reversed

\* The filter service over the buildings of one portal, both joins enabled.
InitFilter ==
    /\ ENABLE_ZONING_JOIN = TRUE
    /\ ENABLE_ASSESS_JOIN = TRUE
    /\ remote \in {Remote(b, PlainWorld, [ds \in Datasets |-> TRUE]) :
                      b \in SeqsUpTo(BuildingFeatures, MaxFeatures)}
    /\ Idle

NextFilter == ApiApplyFilters \/ Return

SpecFilter == InitFilter /\ [][NextFilter]_vars

\* The filter service asked about text, over buildings that keep their raw
\* zoning (joins disabled).
InitText ==
    /\ ENABLE_ZONING_JOIN = FALSE
    /\ ENABLE_ASSESS_JOIN = FALSE
    /\ remote \in {Remote(b, [land_use |-> <<>>, assess |-> <<>>, tree_reversed |-> FALSE],
                           [ds \in Datasets |-> TRUE]) :
                      b \in SeqsUpTo(ZonedFeatures, MaxFeatures)}
    /\ Idle

NextText == ApiApplyTextFilters \/ Return

SpecText == InitText /\ [][NextText]_vars

\* Buildings on valid and invalid rings for the service asked about windows.
WindowFeatures ==
    { Feature(Polygon(RingA), Dict2(k_id, PyInt(1), k_zoning, s_RCG)),
      Feature(Polygon(RingB), Dict1(k_id, PyInt(2))),
      Feature(Polygon(RingShort), Dict1(k_id, PyInt(3))) }

\* The buildings service asked for several windows while the portal's
\* datasets come and go; the zoning join is enabled.
InitWindows ==
    /\ ENABLE_ZONING_JOIN = TRUE
    /\ ENABLE_ASSESS_JOIN \in BOOLEAN
    /\ remote \in {Remote(b, PlainWorld, [ds \in Datasets |-> TRUE]) :
                      b \in SeqsUpTo(WindowFeatures, MaxFeatures)}
    /\ Idle

NextWindows == ApiBuildingsWindow \/ PortalChange \/ Return

SpecWindows == InitWindows /\ [][NextWindows]_vars

\* A building of height 45 and one of the default height.
TallFeature == Feature(Polygon(RingA), Dict2(k_id, PyInt(7), k_height, PyStr(<<"4", "5">>)))
LowFeature == Feature(Polygon(RingB), Dict2(k_id, PyStr(<<"b", "1">>), k_zoning, s_RCG))

\* The project service used by one client at a time, over a portal that
\* serves one or two buildings; the user bob may have a file of an earlier
\* version.
InitProjects ==
    /\ ENABLE_ZONING_JOIN = FALSE
    /\ ENABLE_ASSESS_JOIN = FALSE
    /\ remote \in {Remote(b, [land_use |-> <<>>, assess |-> <<>>, tree_reversed |-> FALSE],
                           [ds \in Datasets |-> TRUE]) :
                      b \in {<<TallFeature, LowFeature>>, <<LowFeature>>}}
    /\ Started
    /\ files \in {<<>>, <<"b", "o", "b">> :> LegacyFile}

NextProjects == ApiSave \/ ApiLoad \/ ApiProjects \/ Return

SpecProjects == InitProjects /\ [][NextProjects]_vars

\* The project service with its threads saving side by side.
InitSaves ==
    /\ InitProjects
    /\ files = <<>>

NextSaves == \E w \in Workers : SaveBegin(w) \/ SaveOpen(w) \/ SaveDump(w) \/ SaveReturn(w)

SpecSaves == InitSaves /\ [][NextSaves]_vars

\* The same portal behind the older service of app.py.
NextApp == AppApplyFilters \/ Return

SpecApp == InitFilter /\ [][NextApp]_vars

----------------------------------------------------------------------------
(* Properties *)

Answered(op) == request # None /\ request.op = op

Ids(bs) == [i \in 1..Len(bs) |-> bs[i].d[k_id]]

\* The ids, in order, of the buildings that satisfy P.
IdsWhere(bs, P(_)) == Ids(SelectSeq(bs, P))

Held == LATEST_PAYLOAD.d.buildings

AllDicts(fs) == \A i \in 1..Len(fs) : fs[i].t = "dict"

Satisfies(b, f) == _match_one(b, f) = PyBool(TRUE)

\* C1: for every list of filters, the empty list included, the matched ids
\* are exactly the ids of the buildings that satisfy every filter of the list.
C1_MatchIsConjunction ==
    (Answered("api_apply_filters") /\ LATEST_PAYLOAD # None
        /\ request.filters.t = "list" /\ AllDicts(request.filters.items))
    => /\ response.status = 200
       /\ response.body.matched_ids =
              IdsWhere(Held, LAMBDA b : \A i \in 1..Len(request.filters.items) :
                                            Satisfies(b, request.filters.items[i]))

\* C2: every building id of a payload is a string and no two buildings of
\* the payload share an id.
C2_IdsAreUniqueStrings ==
    (Answered("api_buildings") /\ response.status = 200)
    => /\ \A i \in 1..Len(response.body.d.buildings) :
              response.body.d.buildings[i].d[k_id].t = "str"
       /\ \A i, j \in 1..Len(response.body.d.buildings) :
              i # j => response.body.d.buildings[i].d[k_id]
                           # response.body.d.buildings[j].d[k_id]

\* A feature whose geometry gives a ring of at least three positions.
HasValidRing(f) ==
    /\ f.geometry # None
    /\ \/ /\ f.geometry.type = "Polygon"
          /\ Len(f.geometry.coordinates) >= 1
          /\ Len(f.geometry.coordinates[1]) >= 3
       \/ /\ f.geometry.type = "MultiPolygon"
          /\ Len(f.geometry.coordinates) >= 1
          /\ Len(f.geometry.coordinates[1]) >= 1
          /\ Len(f.geometry.coordinates[1][1]) >= 3

Served == remote.features[BUILDINGS_ID]

NoValidRing == \A i \in 1..Len(Served) : ~HasValidRing(Served[i])

\* C3: fetch_buildings ends in an error whenever no fetched feature yields a
\* valid ring, and no payload has an empty buildings list or a count of 0.
C3_NoBuildingsIsAnError ==
    /\ Answered("api_buildings") =>
          /\ NoValidRing => response.status = 500
          /\ response.status = 200 =>
                /\ response.body.d.buildings # <<>>
                /\ response.body.d.count > 0
    /\ LATEST_PAYLOAD # None => LATEST_PAYLOAD.d.buildings # <<>> /\ LATEST_PAYLOAD.d.count > 0

\* C3 witness: features were served, none with a valid ring, and the request
\* ended in the empty-result error.
C3_Witness ==
    /\ Answered("api_buildings")
    /\ remote.up[BUILDINGS_ID]
    /\ Served # <<>>
    /\ NoValidRing
    /\ response = Status(500, "EmptyResult")

JoinsDisabled == ~ENABLE_ZONING_JOIN /\ ~ENABLE_ASSESS_JOIN

\* C4: with both joins disabled no request, data or metadata, goes to the
\* land-use or assessment dataset and no index is built, so a buildings
\* request succeeds whenever the buildings dataset answers with a valid
\* feature, whether or not the join datasets are reachable.
C4_DisabledJoinsSendNothing ==
    JoinsDisabled =>
        /\ \A rq \in requested : rq[1] = BUILDINGS_ID
        /\ land_use_cache = <<>> /\ assess_cache = <<>> /\ joined = <<>>
        /\ geom_field_cache \subseteq {BUILDINGS_ID}
        /\ (Answered("api_buildings") /\ remote.up[BUILDINGS_ID] /\ ~NoValidRing)
               => response.status = 200

\* C4 witness: joins disabled, both join datasets unreachable, and the
\* buildings request succeeded.
C4_Witness ==
    /\ JoinsDisabled
    /\ ~remote.up[LAND_USE_ID] /\ ~remote.up[ASSESS_ID]
    /\ Answered("api_buildings")
    /\ response.status = 200

Built == response.body.d.buildings

\* The point a building is looked up at.
PointOf(b) == CentroidOf(Polygon(b.d[k_footprint_ll].items), b.d[k_footprint_ll].items)

\* What the join answered for the point during this request.
JoinValue(ds, p) ==
    joined[CHOOSE i \in 1..Len(joined) : joined[i].ds = ds /\ joined[i].p = p].val

Prefer(j, raw) == IF j # None THEN j ELSE raw

\* C5: with a join enabled, a building carries the join's value whenever the
\* join returned a non-null value, whatever its raw properties say, and the
\* raw value (or null) when the join returned null.
C5_JoinOverridesRaw ==
    (Answered("api_buildings") /\ response.status = 200)
    => \A i \in 1..Len(Built) :
          /\ ENABLE_ZONING_JOIN =>
                Built[i].d[k_zoning]
                    = Prefer(JoinValue(LAND_USE_ID, PointOf(Built[i])),
                             RawZoning(Built[i].d[k_properties]))
          /\ ENABLE_ASSESS_JOIN =>
                Built[i].d[k_assessed_value]
                    = Prefer(JoinValue(ASSESS_ID, PointOf(Built[i])),
                             RawAssessed(Built[i].d[k_properties]))

\* The served features of a dataset whose polygon holds p strictly inside.
StrictlyHolding(ds, p) ==
    {i \in 1..Len(remote.features[ds]) :
        /\ Shape(remote.features[ds][i].geometry) # None
        /\ PolyContains(Shape(remote.features[ds][i].geometry).items, p)}

ZoningKeys == <<k_land_use_district, k_district, k_lu_district, k_code, k_lud>>

AssessKeys == <<k_assessed_value, k_assessment, k_total_assessed_value, k_value>>

FirstNonNull(props, keys) ==
    LET found == {i \in 1..Len(keys) : Get(props, keys[i]) # None}
    IN  IF found = {} THEN None
        ELSE Get(props, keys[CHOOSE i \in found : \A j \in found : i <= j])

PropsOf(ds, i) == Or(remote.features[ds][i].properties, PyDict(EmptyDict))

Resolved(ds, i) ==
    IF ds = LAND_USE_ID THEN FirstNonNull(PropsOf(ds, i), ZoningKeys)
    ELSE _as_float(FirstNonNull(PropsOf(ds, i), AssessKeys))

\* C6: a point strictly inside exactly one indexed polygon resolves to the
\* first non-null candidate property, in the documented order, of that same
\* feature, and a point inside no polygon resolves to null.
C6_PointResolvesToFirstNonNull ==
    \A n \in 1..Len(joined) :
        /\ StrictlyHolding(joined[n].ds, joined[n].p) = {} => joined[n].val = None
        /\ \A i \in StrictlyHolding(joined[n].ds, joined[n].p) :
              StrictlyHolding(joined[n].ds, joined[n].p) = {i}
                  => joined[n].val = Resolved(joined[n].ds, i)

\* The request carried a list of one filter on a numeric attribute, with an
\* operator name, and a payload was there to evaluate it on.
NumericQuery ==
    /\ Answered("api_apply_filters") /\ LATEST_PAYLOAD # None
    /\ request.filters.t = "list" /\ Len(request.filters.items) = 1
    /\ request.filters.items[1].t = "dict"
    /\ Get(request.filters.items[1], k_attribute) \in {PyStr(a) : a \in NumericAttrs}
    /\ Get(request.filters.items[1], k_operator).t = "str"

Asked == request.filters.items[1]

AskedAttr == Get(Asked, k_attribute).s

AskedOp == Get(Asked, k_operator).s

AskedValue == Get(Asked, k_value)

\* The number each filter value of the requests denotes; a value outside the
\* domain denotes no number.
Denotes ==
    (PyStr(<<"3", "0">>) :> 30) @@ (PyInt(45) :> 45) @@ (PyInt(5) :> 5)
    @@ (PyStr(<<"1", ",", "0", "0", "0">>) :> 1000)
    @@ (PyStr(<<" ", "9", "0", "0", " ">>) :> 900)

Range(seq) == {seq[i] : i \in 1..Len(seq)}

Matched == response.body.matched_ids

\* The ids of the held buildings whose numeric attribute stands in relation
\* R to the number the filter value denotes.
IdsComparing(R(_, _)) ==
    IF AskedValue \in DOMAIN Denotes
    THEN IdsWhere(Held, LAMBDA b : b.d[AskedAttr] # None
                                    /\ R(b.d[AskedAttr].n, Denotes[AskedValue]))
    ELSE <<>>

\* The comparison the specification gives each operator name.
Listed(op, a, v) ==
    CASE op = h_gt -> a > v
      [] op = h_lt -> a < v
      [] op = h_ge -> a >= v
      [] op = h_le -> a <= v

Named(op, a, v) ==
    CASE op = h_gt -> a > v
      [] op = h_lt -> a < v
      [] op = h_gte -> a >= v
      [] op = h_lte -> a <= v
      [] op \in {h_ge, h_le} -> FALSE

C8_EvaluationNeverRaises ==
    (Answered("api_apply_filters") /\ LATEST_PAYLOAD # None)
    => /\ response.status = 200
       /\ response.body.count = Len(response.body.matched_ids)

Unusable(f) ==
    /\ f.t = "dict"
    /\ \/ Get(f, k_attribute) \in {None, EmptyStr}
       \/ Get(f, k_operator) \in {None, EmptyStr}
       \/ Get(f, k_operator) = PyStr(h_between)

\* C9: a filter list holding a filter with an unrecognised operator, or with
\* a missing or empty attribute or operator, matches no building.
C9_UnusableFilterMatchesNothing ==
    (Answered("api_apply_filters") /\ LATEST_PAYLOAD # None
        /\ request.filters.t = "list" /\ AllDicts(request.filters.items)
        /\ \E i \in 1..Len(request.filters.items) : Unusable(request.filters.items[i]))
    => /\ response.status = 200
       /\ Matched = <<>>

Relation(op, a, v) ==
    CASE op \in {h_gt} -> a > v
      [] op \in {h_lt} -> a < v
      [] op \in {h_gte, <<">", "=">>} -> a >= v
      [] op \in {h_lte, <<"<", "=">>} -> a <= v
      [] op = h_eq -> a = v
      [] op = h_neq -> a # v

TextQuery ==
    /\ Answered("api_apply_filters") /\ LATEST_PAYLOAD # None
    /\ request.filters.t = "list" /\ Len(request.filters.items) = 1
    /\ request.filters.items[1].t = "dict"
    /\ Get(request.filters.items[1], k_attribute) = PyStr(k_zoning)
    /\ Get(request.filters.items[1], k_operator).t = "str"
    /\ Get(request.filters.items[1], k_operator).s \in TextOps

Small == <<"a", "b", "c", "d", "e", "f", "g", "h", "i", "j", "k", "l", "m",
           "n", "o", "p", "q", "r", "s", "t", "u", "v", "w", "x", "y", "z">>

Capital == <<"A", "B", "C", "D", "E", "F", "G", "H", "I", "J", "K", "L", "M",
             "N", "O", "P", "Q", "R", "S", "T", "U", "V", "W", "X", "Y", "Z">>

\* The text with every letter written as a capital.
Capitals(s) ==
    [i \in 1..Len(s) |->
        IF \E n \in 1..26 : Small[n] = s[i]
        THEN Capital[CHOOSE n \in 1..26 : Small[n] = s[i]]
        ELSE s[i]]

\* The text of a value: empty for null.
Text(v) == IF v = None THEN <<>> ELSE v.s

IsInfix(v, a) ==
    \E i \in 0..(Len(a) - Len(v)) : \A j \in 1..Len(v) : a[i + j] = v[j]

IsPrefix(v, a) == Len(v) <= Len(a) /\ \A j \in 1..Len(v) : a[j] = v[j]

IsSuffix(v, a) ==
    Len(v) <= Len(a) /\ \A j \in 1..Len(v) : a[Len(a) - Len(v) + j] = v[j]

TextRelation(op, a, v) ==
    CASE op = h_contains -> IsInfix(v, a)
      [] op = h_starts_with -> IsPrefix(v, a)
      [] op = h_ends_with -> IsSuffix(v, a)
      [] op = h_eq -> a = v
      [] op = h_neq -> a # v

\* C11: on a non-numeric attribute contains, starts_with, ends_with, eq and
\* neq are decided on forms of the two operands that do not depend on their
\* letter case, so changing the case of either operand changes no result.
C11_TextIgnoresCase ==
    TextQuery
    => /\ response.status = 200
       /\ Matched = IdsWhere(Held, LAMBDA b : TextRelation(AskedOp,
                                                           Capitals(Text(b.d[k_zoning])),
                                                           Capitals(Text(AskedValue))))

\* C11 witness: zoning contains "rc" matched a building zoned "RC-G".
C11_Witness ==
    /\ TextQuery
    /\ Asked = Filter(PyStr(k_zoning), PyStr(h_contains), PyStr(<<"r", "c">>))
    /\ response.status = 200
    /\ \E i \in 1..Len(Held) :
          Held[i].d[k_zoning] = s_RCG /\ Held[i].d[k_id] \in Range(Matched)

HeightKeys == <<k_height, k_bldg_height, k_building_height, k_max_height>>

\* The first of the height properties that yields a number, or the default.
FirstNumber(props, keys, default) ==
    LET found == {i \in 1..Len(keys) : _as_float(Get(props, keys[i])) # None}
    IN  IF found = {} THEN default
        ELSE _as_float(Get(props, keys[CHOOSE i \in found : \A j \in found : i <= j]))

\* C12: every building's height is a number: the value of the first of
\* height, bldg_height, building_height, max_height that yields a non-null
\* number, and the default 10.0 only when none of them does.
C12_HeightIsFirstNumber ==
    (Answered("api_buildings") /\ response.status = 200)
    => \A i \in 1..Len(Built) :
          /\ Built[i].d[k_height].t = "float"
          /\ Built[i].d[k_height] = FirstNumber(Built[i].d[k_properties], HeightKeys, PyFloat(10))

\* The window a buildings request was answered for.
AskedWindow == IF request.bbox = None THEN DEFAULT_BBOX ELSE request.bbox

Origin == response.body.d.projection

\* C13: for a window with north > south and east > west the payload reports
\* the window's centre as origin, and adding that one origin back to each
\* point of every building's footprint_xy gives the point of footprint_ll at
\* the same position.
C13_OriginRoundTrip ==
    (Answered("api_buildings") /\ response.status = 200)
    => /\ AskedWindow.north > AskedWindow.south /\ AskedWindow.east > AskedWindow.west
       /\ 2 * Origin.origin_x = AskedWindow.west + AskedWindow.east
       /\ 2 * Origin.origin_y = AskedWindow.south + AskedWindow.north
       /\ \A i \in 1..Len(Built) :
             /\ Len(Built[i].d[k_footprint_xy].items) = Len(Built[i].d[k_footprint_ll].items)
             /\ \A j \in 1..Len(Built[i].d[k_footprint_ll].items) :
                   /\ Built[i].d[k_footprint_xy].items[j][1] + Origin.origin_x
                          = Built[i].d[k_footprint_ll].items[j][1]
                   /\ Built[i].d[k_footprint_xy].items[j][2] + Origin.origin_y
                          = Built[i].d[k_footprint_ll].items[j][2]

\* C13 witness: two buildings answered for a window other than the default.
C13_Witness ==
    /\ Answered("api_buildings")
    /\ response.status = 200
    /\ request.bbox # None
    /\ Len(Built) = 2

ErrorKinds == {"SourceUnavailable", "EmptyResult"}

\* C14: when a request sent to the portal during a buildings request fails
\* (buildings data, geometry-field metadata, or the data of a join index),
\* the request ends in an error without a payload and LATEST_PAYLOAD keeps
\* the value it had before the request.
C14_FailureKeepsLatest ==
    [][(/\ request = None
        /\ request' # None
        /\ request'.op = "api_buildings"
        /\ \E rq \in requested' : ~remote.up[rq[1]])
       => /\ response'.status = 500
          /\ response'.body \in ErrorKinds
          /\ LATEST_PAYLOAD' = LATEST_PAYLOAD]_vars

\* C14 witness: a payload is held from an earlier request, the buildings were
\* fetched, and the request failed on the data of a join index.
C14_Witness ==
    /\ Answered("api_buildings")
    /\ LATEST_PAYLOAD # None
    /\ <<BUILDINGS_ID, "data">> \in requested
    /\ \E rq \in requested : rq[1] # BUILDINGS_ID /\ ~remote.up[rq[1]]
    /\ response.status = 500

\* C15: for a join dataset and a window the index is built once: every later
\* query for the window, in the same request or a later one, also after
\* queries for other windows, reuses it.
C15_IndexBuiltOnce == \A k \in DOMAIN builds : builds[k] = 1


\* The project a load or save request names: the user's file and the name.
ProjectOf(body) == <<_safe_user(PyStr(Trimmed(body, k_username))), Trimmed(body, k_name)>>

\* The entry of project k in the files, None when there is none to read.
StoredProject(k) ==
    IF k[1] \in DOMAIN files /\ files[k[1]] # Corrupt
    THEN Get(Or(Get(files[k[1]], k_projects), PyDict(EmptyDict)), k[2])
    ELSE None

\* The string form of a selected building id, None when none was selected.
StringForm(v) == IF v = None THEN None ELSE PyStr(Str(v))

AllStrings(items) == \A i \in 1..Len(items) : items[i].t = "str"

\* The load answers with what the save sv stored.
Returns(sv) ==
    /\ response.status = 200
    /\ response.body.filters = Or(sv.filters, PyList(<<>>))
    /\ response.body.selected_building_id = StringForm(sv.selected)
    /\ AllStrings(response.body.matched_ids)
    /\ response.body.matched_ids = sv.matched.items

\* C16: a load of a project whose last save succeeded returns the filters of
\* that save, the string form of its selected building id and, as strings,
\* the matched ids that the save computed; a successful load of a stored
\* project without a matched_ids list returns the ids that its filters match
\* among the held buildings.
C16_SaveLoadRoundTrip ==
    Answered("api_load") =>
        /\ ProjectOf(request.body) \in DOMAIN saved => Returns(saved[ProjectOf(request.body)])
        /\ (response.status = 200 /\ ~HasMatched(StoredProject(ProjectOf(request.body)))) =>
               response.body.matched_ids =
                   Strings(compute_matched_ids(Held,
                               Or(Get(StoredProject(ProjectOf(request.body)), k_filters),
                                  PyList(<<>>))).items)

\* Threads v and w are both done with successful saves of differently named
\* projects of one username.
BothSaved(v, w) ==
    /\ v # w /\ At(v, "done") /\ At(w, "done")
    /\ saving[v].response.status = 200 /\ saving[w].response.status = 200
    /\ Trimmed(saving[v].body, k_username) = Trimmed(saving[w].body, k_username)
    /\ Trimmed(saving[v].body, k_name) # Trimmed(saving[w].body, k_name)

\* C17: when two threads have both answered success to saves of differently
\* named projects of the same username, the user's file holds both projects.
C17_ConcurrentSavesKept ==
    \A v, w \in Workers :
        BothSaved(v, w) =>
            /\ Truthy(StoredProject(ProjectOf(saving[v].body)))
            /\ Truthy(StoredProject(ProjectOf(saving[w].body)))

\* What the service shows username of the files fs: the listing, and for
\* each name the project that a load finds.
ViewOf(fs, username) ==
    [listing |-> Listing(_load_user_projects(fs, PyStr(username))),
     found |-> [n \in ProjectNames |->
                  Looked(fs, Dict2(k_username, PyStr(username), k_name, PyStr(n)),
                         _load_user_projects(fs, PyStr(username)))]]

\* C18: a save under one username leaves what the listing and the loads show
\* every other username as it was.
C18_SaveKeepsOtherUsers ==
    [][(request' # None /\ request'.op = "api_save") =>
          \A u \in Usernames \ {Trimmed(request'.body, k_username)} :
              ViewOf(files', u) = ViewOf(files, u)]_vars

====
